---- MODULE Spec2Model ----
(***************************************************************************)
(* XiaoLiuRen MCP server (src/index.js): the analyze_xiaoliuren tool        *)
(* handler, analyzeXiaoLiuRen, the time-branch resolver, the three-stage    *)
(* divination engine and the advisory lookup.                               *)
(*                                                                          *)
(* Conventions.                                                             *)
(*  - A JavaScript number-or-undefined value is a record [kind, n]:         *)
(*    Num(n), NaN or Undefined.                                             *)
(*  - A string the code parses (date, time) is a sequence of characters,    *)
(*    each a one-element token; a Chinese character is written as its       *)
(*    pinyin token ("Zi", "Shi"), since the module is ASCII.                *)
(*  - Names and texts the code only compares or prints are atomic strings,  *)
(*    transliterated: DaAn, LiuLian, SuXi, ChiKou, XiaoJi, KongWang.        *)
(***************************************************************************)
EXTENDS Integers, Sequences, FiniteSets, TLC

VARIABLES requests, call

vars == <<requests, call>>

(***************************************************************************)
(* JavaScript values and operators used by the source                       *)
(***************************************************************************)
Num(n) == [kind |-> "number", n |-> n]

NaN == [kind |-> "NaN", n |-> 0]

Undefined == [kind |-> "undefined", n |-> 0]

IsNum(v) == v.kind = "number"

\* binary - and + on numbers: undefined converts to NaN, NaN propagates
JsSub(a, b) == IF IsNum(a) /\ IsNum(b) THEN Num(a.n - b.n) ELSE NaN

JsAdd(a, b) == IF IsNum(a) /\ IsNum(b) THEN Num(a.n + b.n) ELSE NaN

\* the % operator: the remainder takes the sign of the dividend
JsRem(a, b) ==
  IF IsNum(a) /\ IsNum(b) /\ b.n # 0
  THEN IF a.n >= 0 THEN Num(a.n % b.n) ELSE Num(-((-a.n) % b.n))
  ELSE NaN

\* relational operators: any comparison with NaN is false
JsGE(a, b) == IsNum(a) /\ IsNum(b) /\ a.n >= b.n

JsLT(a, b) == IsNum(a) /\ IsNum(b) /\ a.n < b.n

\* Math.floor(x / 2) for an integer-valued x
JsFloorHalf(a) == IF IsNum(a) THEN Num(a.n \div 2) ELSE NaN

(***************************************************************************)
(* Strings as character sequences: split, parseInt, the date pattern        *)
(***************************************************************************)
DigitChars == <<"0", "1", "2", "3", "4", "5", "6", "7", "8", "9">>

IsDigit(c) == \E i \in 1..10 : DigitChars[i] = c

DigitVal(c) == (CHOOSE i \in 1..10 : DigitChars[i] = c) - 1

IsSpace(c) == c \in {" ", "\t", "\n"}

Drop(s, k) == SubSeq(s, k + 1, Len(s))

\* index of the first occurrence of character sep in s, 0 when absent
RECURSIVE IndexOf(_, _, _)
IndexOf(s, sep, i) ==
  IF i > Len(s) THEN 0
  ELSE IF s[i] = sep THEN i
  ELSE IndexOf(s, sep, i + 1)

\* String.prototype.split(sep) for a one-character separator
RECURSIVE Split(_, _)
Split(s, sep) ==
  LET k == IndexOf(s, sep, 1)
  IN IF k = 0 THEN <<s>>
     ELSE <<SubSeq(s, 1, k - 1)>> \o Split(Drop(s, k), sep)

RECURSIVE SkipSpaces(_)
SkipSpaces(s) ==
  IF Len(s) > 0 /\ IsSpace(s[1]) THEN SkipSpaces(Tail(s)) ELSE s

\* value of the longest prefix of decimal digits of s, acc the value so far
RECURSIVE DigitsValue(_, _)
DigitsValue(s, acc) ==
  IF Len(s) > 0 /\ IsDigit(s[1])
  THEN DigitsValue(Tail(s), 10 * acc + DigitVal(s[1]))
  ELSE acc

\* parseInt(string) without radix, on strings with no 0x prefix: leading
\* white space skipped, optional sign, then the longest run of digits;
\* NaN when there is no digit
ParseInt(s) ==
  LET t == SkipSpaces(s)
      signed == Len(t) > 0 /\ t[1] \in {"-", "+"}
      body == IF signed THEN Tail(t) ELSE t
  IN IF Len(body) = 0 \/ ~IsDigit(body[1]) THEN NaN
     ELSE IF signed /\ t[1] = "-" THEN Num(-DigitsValue(body, 0))
     ELSE Num(DigitsValue(body, 0))

AllDigits(s) == \A i \in 1..Len(s) : IsDigit(s[i])

\* date.match(/^(\d{4})-(\d{1,2})-(\d{1,2})$/): the three captured groups,
\* or <<>> for null
DateMatch(date) ==
  LET parts == Split(date, "-")
  IN IF /\ Len(parts) = 3
        /\ Len(parts[1]) = 4 /\ AllDigits(parts[1])
        /\ Len(parts[2]) \in 1..2 /\ AllDigits(parts[2])
        /\ Len(parts[3]) \in 1..2 /\ AllDigits(parts[3])
     THEN parts
     ELSE <<>>

(***************************************************************************)
(* Time-branch resolver                                                     *)
(***************************************************************************)
\* the twelve branch names, each two characters
shichens ==
  << <<"Zi", "Shi">>, <<"Chou", "Shi">>, <<"Yin", "Shi">>, <<"Mao", "Shi">>,
     <<"Chen", "Shi">>, <<"Si", "Shi">>, <<"Wu", "Shi">>, <<"Wei", "Shi">>,
     <<"Shen", "Shi">>, <<"You", "Shi">>, <<"Xu", "Shi">>, <<"Hai", "Shi">> >>

\* the string "undefined" a template literal prints for an undefined value
UndefinedText == <<"u", "n", "d", "e", "f", "i", "n", "e", "d">>

\* array[index] on the branch list, undefined outside 0..11
ShichenAt(index) ==
  IF IsNum(index) /\ index.n \in 0..(Len(shichens) - 1)
  THEN shichens[index.n + 1]
  ELSE UndefinedText

getShichenPos(hour) ==
  IF JsGE(hour, Num(23)) \/ JsLT(hour, Num(1)) THEN Num(0)
  ELSE JsFloorHalf(JsAdd(hour, Num(1)))

getShichen(hour) == ShichenAt(getShichenPos(hour))

\* a resolver that returns the 0-based list position as the ordinal
getShichenIndexZeroBased(hour) ==
  IF JsGE(hour, Num(23)) \/ JsLT(hour, Num(1)) THEN Num(0)
  ELSE JsFloorHalf(JsAdd(hour, Num(1)))

getShichenIndex(hour) ==
  IF JsGE(hour, Num(23)) \/ JsLT(hour, Num(1)) THEN Num(1)
  ELSE JsAdd(JsFloorHalf(JsAdd(hour, Num(1))), Num(1))

(***************************************************************************)
(* State catalog and divination engine                                      *)
(***************************************************************************)
God(name, element, nature) ==
  [name |-> name, element |-> element, nature |-> nature,
   meaning |-> "meaning:" \o name, details |-> "details:" \o name]

\* a catalog held in one array shared by all queries, which the handling of
\* a query rotates in place
sixGodsSharedAndRotated ==
  IF \E r \in DOMAIN requests : requests[r].phase # "idle"
  THEN << God("LiuLian", "earth", "inauspicious"),
          God("SuXi", "fire", "auspicious"),
          God("ChiKou", "metal", "inauspicious"),
          God("XiaoJi", "water", "neutral"),
          God("KongWang", "earth", "inauspicious"),
          God("DaAn", "wood", "auspicious") >>
  ELSE << God("DaAn", "wood", "auspicious"),
          God("LiuLian", "earth", "inauspicious"),
          God("SuXi", "fire", "auspicious"),
          God("ChiKou", "metal", "inauspicious"),
          God("XiaoJi", "water", "neutral"),
          God("KongWang", "earth", "inauspicious") >>

\* the six states in catalog order, built afresh by every call (lines
\* 254-297); the long texts are named, not copied
sixGods ==
  << God("DaAn", "wood", "auspicious"),
     God("LiuLian", "earth", "inauspicious"),
     God("SuXi", "fire", "auspicious"),
     God("ChiKou", "metal", "inauspicious"),
     God("XiaoJi", "water", "neutral"),
     God("KongWang", "earth", "inauspicious") >>

CatalogSize == 6

\* what sixGods[position] yields when the position is no index of the array
UndefinedGod == God("undefined", "undefined", "undefined")

InCatalog(position) == IsNum(position) /\ position.n \in 0..(Len(sixGods) - 1)

\* sixGods[position]
GodAt(position) ==
  IF InCatalog(position) THEN sixGods[position.n + 1] ELSE UndefinedGod

\* an engine whose day stage starts from the origin instead of the month stage
calculateUnchained(lunarMonth, lunarDay, hour) ==
  LET monthPosition == JsRem(JsSub(lunarMonth, Num(1)), Num(CatalogSize))
      dayPosition == JsRem(JsSub(lunarDay, Num(1)), Num(CatalogSize))
      shichenIndex == getShichenIndex(hour)
      finalPosition ==
        JsRem(JsSub(JsAdd(dayPosition, shichenIndex), Num(1)), Num(CatalogSize))
  IN [threw |-> FALSE,
      positions |-> <<monthPosition, dayPosition, finalPosition>>,
      lookups |-> <<finalPosition, monthPosition, dayPosition>>,
      shichenIndex |-> shichenIndex,
      monthPosition |-> GodAt(monthPosition).name,
      dayPosition |-> GodAt(dayPosition).name,
      finalResult |-> GodAt(finalPosition)]

\* an engine whose month stage forgets the "- 1"
calculateMonthOffByOne(lunarMonth, lunarDay, hour) ==
  LET monthPosition == JsRem(lunarMonth, Num(CatalogSize))
      dayPosition ==
        JsRem(JsSub(JsAdd(monthPosition, lunarDay), Num(1)), Num(CatalogSize))
      shichenIndex == getShichenIndex(hour)
      finalPosition ==
        JsRem(JsSub(JsAdd(dayPosition, shichenIndex), Num(1)), Num(CatalogSize))
  IN [threw |-> FALSE,
      positions |-> <<monthPosition, dayPosition, finalPosition>>,
      lookups |-> <<finalPosition, monthPosition, dayPosition>>,
      shichenIndex |-> shichenIndex,
      monthPosition |-> GodAt(monthPosition).name,
      dayPosition |-> GodAt(dayPosition).name,
      finalResult |-> GodAt(finalPosition)]

\* calculateXiaoLiuRen(lunarMonth, lunarDay, hour).  The three positions are
\* kept in the result as positions; lookups lists, in evaluation order, the
\* index values the call used on sixGods before it returned or threw.
\* Reading .name of an undefined element throws a TypeError: at line 313 for
\* the month stage, 314 for the day stage, 319 for the final result.
calculateXiaoLiuRen(lunarMonth, lunarDay, hour) ==
  LET monthPosition == JsRem(JsSub(lunarMonth, Num(1)), Num(CatalogSize))
      dayPosition ==
        JsRem(JsSub(JsAdd(monthPosition, lunarDay), Num(1)), Num(CatalogSize))
      shichenIndex == getShichenIndex(hour)
      finalPosition ==
        JsRem(JsSub(JsAdd(dayPosition, shichenIndex), Num(1)), Num(CatalogSize))
      threw == ~InCatalog(monthPosition) \/ ~InCatalog(dayPosition)
                 \/ ~InCatalog(finalPosition)
      lookups ==
        IF ~InCatalog(monthPosition) THEN <<finalPosition, monthPosition>>
        ELSE <<finalPosition, monthPosition, dayPosition>>
  IN [threw |-> threw,
      positions |-> <<monthPosition, dayPosition, finalPosition>>,
      lookups |-> lookups,
      shichenIndex |-> shichenIndex,
      monthPosition |-> GodAt(monthPosition).name,
      dayPosition |-> GodAt(dayPosition).name,
      finalResult |-> GodAt(finalPosition)]

(***************************************************************************)
(* Advisory renderer                                                        *)
(***************************************************************************)
GodNames == {sixGods[i].name : i \in 1..Len(sixGods)}

\* properties every object literal inherits from Object.prototype
ObjectPrototypeProps ==
  {"constructor", "toString", "toLocaleString", "valueOf", "hasOwnProperty",
   "isPrototypeOf", "propertyIsEnumerable", "__proto__",
   "__defineGetter__", "__defineSetter__", "__lookupGetter__",
   "__lookupSetter__"}

StringValue(s) == [type |-> "string", v |-> s]

UndefinedValue == [type |-> "undefined", v |-> ""]

\* advice[godName]: an own property is the state's text, an inherited one is
\* the function (or, for __proto__, the object) found on the prototype
advice(godName) ==
  IF godName \in GodNames THEN StringValue("advice for " \o godName)
  ELSE IF godName = "__proto__" THEN [type |-> "object", v |-> godName]
  ELSE IF godName \in ObjectPrototypeProps THEN [type |-> "function", v |-> godName]
  ELSE UndefinedValue

FallbackAdvice == StringValue("take it as it comes")

Truthy(value) == value.type \notin {"undefined"} /\ value # StringValue("")

getAdvice(godName) ==
  IF Truthy(advice(godName)) THEN advice(godName) ELSE FallbackAdvice

(***************************************************************************)
(* Calendar adapter (js-calendar-converter), an external collaborator       *)
(***************************************************************************)
\* What a call of calendar.solar2lunar or calendar.lunar2solar can do: return
\* a result object, return the number -1 (how the library reports a date it
\* cannot represent), or throw.  Reading a property of -1 yields undefined.
AdapterObject(lMonth, lDay) ==
  [kind |-> "object", lMonth |-> Num(lMonth), lDay |-> Num(lDay),
   labels |-> "labels of the date"]

AdapterMinusOne ==
  [kind |-> "minusOne", lMonth |-> Undefined, lDay |-> Undefined,
   labels |-> "undefined"]

AdapterThrows ==
  [kind |-> "throws", lMonth |-> Undefined, lDay |-> Undefined,
   labels |-> "undefined"]

AdapterNotCalled ==
  [kind |-> "notCalled", lMonth |-> Undefined, lDay |-> Undefined,
   labels |-> "undefined"]

(***************************************************************************)
(* analyzeXiaoLiuRen and the CallToolRequestSchema handler                  *)
(***************************************************************************)
\* the three lines of the computation trace (lines 316-320)
Calculation(lunarMonth, lunarDay, result) ==
  [month |-> lunarMonth, monthName |-> result.monthPosition,
   day |-> lunarDay, dayName |-> result.dayPosition,
   shichenIndex |-> result.shichenIndex, finalName |-> result.finalResult.name]

\* the parts of the text of lines 148-174
Body(q, shichen, lunarDate, result) ==
  [date |-> q.date,
   calendarTypeText |-> IF q.calendar_type = "lunar" THEN "lunar" ELSE "solar",
   time |-> q.time,
   shichen |-> shichen,
   labels |-> lunarDate.labels,
   calculation |-> Calculation(lunarDate.month, lunarDate.day, result),
   finalResult |-> result.finalResult,
   advice |-> getAdvice(result.finalResult.name)]

\* no text
EmptyBody ==
  [date |-> <<>>, calendarTypeText |-> "", time |-> <<>>, shichen |-> <<>>,
   labels |-> "",
   calculation |->
     [month |-> Undefined, monthName |-> "", day |-> Undefined, dayName |-> "",
      shichenIndex |-> Undefined, finalName |-> ""],
   finalResult |-> UndefinedGod,
   advice |-> UndefinedValue]

Rejected(message) ==
  [state |-> "rejected", reason |-> "date-time error: " \o message,
   value |-> EmptyBody]

Fulfilled(body) == [state |-> "fulfilled", reason |-> "", value |-> body]

\* the lunarDate object of lines 103-136, as far as it is used: month and
\* day, and the labels (year, leap flag, stem-branch names, solar term) that
\* are only printed
LunarDateOf(q, month, day) ==
  IF q.calendar_type = "solar"
  THEN [month |-> q.solar2lunar.lMonth, day |-> q.solar2lunar.lDay,
        labels |-> q.solar2lunar.labels]
  ELSE [month |-> month, day |-> day, labels |-> q.solar2lunar.labels]

\* whether one of the adapter calls of lines 107, 122, 123 throws
AdapterThrew(q) ==
  IF q.calendar_type = "solar" THEN q.solar2lunar.kind = "throws"
  ELSE q.lunar2solar = "throws" \/ q.solar2lunar.kind = "throws"

NoEngineCall ==
  [called |-> FALSE, args |-> <<Undefined, Undefined, Undefined>>,
   ret |-> [threw |-> FALSE, positions |-> <<>>, lookups |-> <<>>,
            shichenIndex |-> Undefined, monthPosition |-> "", dayPosition |-> "",
            finalResult |-> UndefinedGod]]

\* the call of the engine at line 143, when the query gets that far: its
\* arguments and what it returned (or that it threw)
EngineCall(q) ==
  LET dateMatch == DateMatch(q.date)
  IN IF dateMatch = <<>> \/ AdapterThrew(q)
     THEN NoEngineCall
     ELSE
       LET month == ParseInt(dateMatch[2])
           day == ParseInt(dateMatch[3])
           lunarDate == LunarDateOf(q, month, day)
           timeHour == ParseInt(Split(q.time, ":")[1])
       IN [called |-> TRUE, args |-> <<lunarDate.month, lunarDate.day, timeHour>>,
           ret |-> calculateXiaoLiuRen(lunarDate.month, lunarDate.day, timeHour)]

\* analyzeXiaoLiuRen(date, time, calendar_type) with the adapter's answers:
\* the promise it returns, already settled (the function never awaits).
\* Every throw inside the try block is caught at line 176 and rethrown.
analyzeXiaoLiuRen(q) ==
  LET dateMatch == DateMatch(q.date)
  IN IF dateMatch = <<>> THEN Rejected("bad date format, use YYYY-MM-DD")
     ELSE IF AdapterThrew(q) THEN Rejected("calendar adapter error")
     ELSE
       LET month == ParseInt(dateMatch[2])
           day == ParseInt(dateMatch[3])
           lunarDate == LunarDateOf(q, month, day)
           timeHour == ParseInt(Split(q.time, ":")[1])
           shichen == getShichen(timeHour)
           xiaoLiuRenResult == EngineCall(q).ret
       IN IF xiaoLiuRenResult.threw
          THEN Rejected("TypeError: cannot read properties of undefined")
          ELSE Fulfilled(Body(q, shichen, lunarDate, xiaoLiuRenResult))

NoQuery ==
  [date |-> <<>>, time |-> <<>>, calendar_type |-> "",
   solar2lunar |-> AdapterNotCalled, lunar2solar |-> "notCalled"]

NoResponse == [isError |-> FALSE, message |-> "", body |-> EmptyBody]

Idle ==
  [phase |-> "idle", query |-> NoQuery, engine |-> NoEngineCall,
   settled |-> Rejected(""), response |-> NoResponse]

\* the response the handler builds once the awaited promise has settled
\* (lines 66-83)
ResponseOf(settled) ==
  IF settled.state = "fulfilled"
  THEN [isError |-> FALSE, message |-> "", body |-> settled.value]
  ELSE [isError |-> TRUE, message |-> "error: " \o settled.reason,
        body |-> EmptyBody]

\* A tools/call request for analyze_xiaoliuren arrives: the handler runs
\* analyzeXiaoLiuRen to its end and suspends at the await of line 65.  The
\* request keeps, beside the settled promise, the engine call made on the way.
Receive(r, queries) ==
  /\ requests[r].phase = "idle"
  /\ \E q \in queries :
       requests' = [requests EXCEPT ![r] =
                      [phase |-> "awaiting", query |-> q,
                       engine |-> EngineCall(q),
                       settled |-> analyzeXiaoLiuRen(q),
                       response |-> NoResponse]]
  /\ UNCHANGED call

\* The handler resumes after the await and returns the response.
Resume(r) ==
  /\ requests[r].phase = "awaiting"
  /\ requests' = [requests EXCEPT ![r].phase = "responded",
                                  ![r].response = ResponseOf(requests[r].settled)]
  /\ UNCHANGED call

\* A tools/call request naming another tool: the handler throws (line 87).
ReceiveUnknownTool(r) ==
  /\ requests[r].phase = "idle"
  /\ requests' = [requests EXCEPT ![r].phase = "unknownTool"]
  /\ UNCHANGED call

(***************************************************************************)
(* Inputs                                                                   *)
(***************************************************************************)
MaxQueryMonth == 3
MaxQueryDay == 3
MaxQueryHour == 24
MaxAdapterMonth == 2
MaxAdapterDay == 2
MaxInFlight == 2
MaxLunarMonth == 13
MaxLunarDay == 13
MaxHour == 25

\* a number below 100 printed with two digits
Format2(n) == <<DigitChars[(n \div 10) + 1], DigitChars[(n % 10) + 1]>>

QueryYear == <<"2", "0", "2", "4">>

FormatDate(month, day) ==
  QueryYear \o <<"-">> \o Format2(month) \o <<"-">> \o Format2(day)

FormatTime(hour, minute) == Format2(hour) \o <<":">> \o Format2(minute)

\* date strings: YYYY-MM-DD with month and day from 0, one with one-digit
\* fields, and strings the pattern rejects
WellFormedDates ==
  {FormatDate(m, d) : m \in 0..MaxQueryMonth, d \in 0..MaxQueryDay}
    \cup {QueryYear \o <<"-", "5", "-", "9">>}

MalformedDates ==
  {QueryYear \o <<"/", "0", "5", "/", "1", "0">>,
   <<"2", "4", "-", "0", "5", "-", "1", "0">>,
   QueryYear \o <<"-", "0", "5", "-", "1", "0", "0">>,
   <<>>}

\* time strings: HH:MM, hours past 23, the twelve branch names, the empty string
HourTimes == {FormatTime(h, 0) : h \in 0..MaxQueryHour}

OutOfRangeTimes == {FormatTime(24, 0), FormatTime(25, 30), FormatTime(99, 0)}

BranchNameTimes == {shichens[i] : i \in 1..Len(shichens)}

TimeStrings == HourTimes \cup OutOfRangeTimes \cup BranchNameTimes \cup {<<>>}

\* the adapter's answers to one query: on the solar path one call of
\* solar2lunar; on the lunar path lunar2solar, then (unless it threw)
\* solar2lunar
SolarAnswers ==
  {AdapterObject(m, d) : m \in 1..MaxAdapterMonth, d \in 1..MaxAdapterDay}
    \cup {AdapterMinusOne, AdapterThrows}

QueriesOver(dates, times) ==
  {[date |-> dt, time |-> tm, calendar_type |-> "solar",
    solar2lunar |-> a, lunar2solar |-> "notCalled"] :
      dt \in dates, tm \in times, a \in SolarAnswers}
  \cup
  {[date |-> dt, time |-> tm, calendar_type |-> "lunar",
    solar2lunar |-> a, lunar2solar |-> l] :
      dt \in dates, tm \in times,
      a \in {AdapterObject(1, 1), AdapterMinusOne, AdapterThrows},
      l \in {"object", "minusOne"}}
  \cup
  {[date |-> dt, time |-> tm, calendar_type |-> "lunar",
    solar2lunar |-> AdapterNotCalled, lunar2solar |-> "throws"] :
      dt \in dates, tm \in times}

Queries == QueriesOver(WellFormedDates \cup MalformedDates, TimeStrings)

\* the queries of the runs with several requests in flight
ConcurrentQueries ==
  {q \in QueriesOver({FormatDate(5, 10), FormatDate(0, 5), <<>>},
                     {FormatTime(14, 0), shichens[1]}) :
     /\ q.solar2lunar \in {AdapterObject(1, 1), AdapterMinusOne}
     /\ q.lunar2solar # "object"}

(***************************************************************************)
(* Direct calls of the methods                                              *)
(***************************************************************************)
NoCall == [fn |-> "none", args |-> <<>>, ret |-> <<>>]

NumberInputs(max) == {Num(n) : n \in 0..max} \cup {NaN, Undefined}

HourInputs == {Num(h) : h \in (0 - 1)..MaxHour} \cup {NaN}

AdviceInputs ==
  GodNames \cup {"unknown-name", "", "undefined", "constructor", "toString",
                 "hasOwnProperty", "__proto__"}

CallCalculate ==
  /\ call = NoCall
  /\ \E m \in NumberInputs(MaxLunarMonth), d \in NumberInputs(MaxLunarDay),
        h \in HourInputs :
       call' = [fn |-> "calculateXiaoLiuRen", args |-> <<m, d, h>>,
                ret |-> calculateXiaoLiuRen(m, d, h)]
  /\ UNCHANGED requests

CallGetShichen ==
  /\ call = NoCall
  /\ \E h \in HourInputs :
       call' = [fn |-> "getShichen", args |-> <<h>>, ret |-> getShichen(h)]
  /\ UNCHANGED requests

CallGetShichenIndex ==
  /\ call = NoCall
  /\ \E h \in HourInputs :
       call' = [fn |-> "getShichenIndex", args |-> <<h>>,
                ret |-> getShichenIndex(h)]
  /\ UNCHANGED requests

CallGetAdvice ==
  /\ call = NoCall
  /\ \E name \in AdviceInputs :
       call' = [fn |-> "getAdvice", args |-> <<name>>, ret |-> getAdvice(name)]
  /\ UNCHANGED requests

(***************************************************************************)
(* Specifications                                                           *)
(***************************************************************************)
\* one tool call, over all queries
Init == requests = [r \in {1} |-> Idle] /\ call = NoCall

Next ==
  \/ \E r \in DOMAIN requests : Receive(r, Queries)
  \/ \E r \in DOMAIN requests : Resume(r)
  \/ \E r \in DOMAIN requests : ReceiveUnknownTool(r)

Spec == Init /\ [][Next]_vars

\* several tool calls in flight, their steps interleaved
InitConcurrent == requests = [r \in 1..MaxInFlight |-> Idle] /\ call = NoCall

NextConcurrent ==
  \/ \E r \in DOMAIN requests : Receive(r, ConcurrentQueries)
  \/ \E r \in DOMAIN requests : Resume(r)
  \/ \E r \in DOMAIN requests : ReceiveUnknownTool(r)

SpecConcurrent == InitConcurrent /\ [][NextConcurrent]_vars

\* one direct call of a method
NextFn == CallCalculate \/ CallGetShichen \/ CallGetShichenIndex \/ CallGetAdvice

InitFn == requests = <<>> /\ call = NoCall

SpecFn == InitFn /\ [][NextFn]_vars

(***************************************************************************)
(* Properties                                                               *)
(***************************************************************************)
\* the ordinal of the two-hour branch an hour of the day falls in
TimeBranchOrdinal(h) == IF h = 23 \/ h = 0 THEN 1 ELSE ((h + 1) \div 2) + 1

\* a direct engine call with month >= 1, day >= 1 and an hour of the day
ValidEngineCall ==
  /\ call.fn = "calculateXiaoLiuRen"
  /\ \A i \in 1..3 : IsNum(call.args[i])
  /\ call.args[1].n >= 1
  /\ call.args[2].n >= 1
  /\ call.args[3].n \in 0..23

\* C1: for month m >= 1, day d >= 1 and hour in 0..23 the engine chains
\* monthPos = (m-1) mod 6, dayPos = (monthPos+d-1) mod 6,
\* finalPos = (dayPos+ordinal-1) mod 6; finalResult is the catalog entry at
\* finalPos and the stage names are the catalog names at monthPos and dayPos
\* (m=5, d=10, hour=14 gives 4, 1, 2 and the third entry).
C1_ChainedStages ==
  ValidEngineCall =>
    LET m == call.args[1].n
        d == call.args[2].n
        h == call.args[3].n
        monthPos == (m - 1) % 6
        dayPos == (monthPos + d - 1) % 6
        finalPos == (dayPos + TimeBranchOrdinal(h) - 1) % 6
    IN /\ ~call.ret.threw
       /\ call.ret.positions = <<Num(monthPos), Num(dayPos), Num(finalPos)>>
       /\ call.ret.finalResult = sixGods[finalPos + 1]
       /\ call.ret.monthPosition = sixGods[monthPos + 1].name
       /\ call.ret.dayPosition = sixGods[dayPos + 1].name
       /\ (m = 5 /\ d = 10 /\ h = 14) =>
            /\ call.ret.positions = <<Num(4), Num(1), Num(2)>>
            /\ call.ret.finalResult.name = "SuXi"

C1_Witness ==
  /\ call.fn = "calculateXiaoLiuRen"
  /\ call.args = <<Num(5), Num(10), Num(14)>>
  /\ call.ret.finalResult = sixGods[3]

\* the requests whose handler has run the analysis
Received == {r \in DOMAIN requests : requests[r].phase \in {"awaiting", "responded"}}

Responded == {r \in DOMAIN requests : requests[r].phase = "responded"}

\* C2: every position value a query's engine call uses to index the catalog
\* is an integer in 0..5 at the moment of the lookup.
C2_LookupsInRange ==
  \A r \in Received :
    requests[r].engine.called =>
      \A i \in 1..Len(requests[r].engine.ret.lookups) :
        InCatalog(requests[r].engine.ret.lookups[i])

\* C3: for every hour h in 0..23 getShichenIndex yields an ordinal in 1..12,
\* 1 for h = 23 and h = 0 and floor((h+1)/2)+1 otherwise, and getShichen(h)
\* is the name at position getShichenIndex(h) - 1 of the twelve-name list.
C3_BranchResolver ==
  /\ (call.fn = "getShichenIndex" /\ IsNum(call.args[1])
        /\ call.args[1].n \in 0..23) =>
       /\ IsNum(call.ret)
       /\ call.ret.n \in 1..12
       /\ call.ret.n = TimeBranchOrdinal(call.args[1].n)
       /\ (call.args[1].n = 1 => call.ret.n = 2)
       /\ (call.args[1].n = 22 => call.ret.n = 12)
  /\ (call.fn = "getShichen" /\ IsNum(call.args[1])
        /\ call.args[1].n \in 0..23) =>
       /\ IsNum(getShichenIndex(call.args[1]))
       /\ getShichenIndex(call.args[1]).n \in 1..Len(shichens)
       /\ call.ret = shichens[(getShichenIndex(call.args[1]).n - 1) + 1]

C3_Witness ==
  /\ call.fn = "getShichen"
  /\ call.args = <<Num(22)>>
  /\ call.ret = shichens[12]

\* the hour a query's time string states, when it is HH:MM
StatedHour(q) == ParseInt(Split(q.time, ":")[1])

\* C4: a query whose hour is outside 0..23 (24:00, 25:30, 99:00) ends in an
\* error and returns no divination result.
C4_HourOutOfRangeRejected ==
  \A r \in Responded :
    (IsNum(StatedHour(requests[r].query))
       /\ StatedHour(requests[r].query).n \notin 0..23) =>
      /\ requests[r].response.isError
      /\ requests[r].response.body = EmptyBody

\* C5: whenever a lunar month <= 0 or a lunar day <= 0 reaches the engine,
\* the query ends in an error, for every such month, day and hour.
C5_NonPositiveRejected ==
  \A r \in Responded :
    (/\ requests[r].engine.called
     /\ \/ (IsNum(requests[r].engine.args[1]) /\ requests[r].engine.args[1].n <= 0)
        \/ (IsNum(requests[r].engine.args[2]) /\ requests[r].engine.args[2].n <= 0)) =>
      requests[r].response.isError

\* the adapter could not represent the query's date: the conversion of the
\* date the query gives failed (returned -1 or threw)
CalendarFailure(q) ==
  IF q.calendar_type = "solar"
  THEN q.solar2lunar.kind \in {"minusOne", "throws"}
  ELSE q.lunar2solar \in {"minusOne", "throws"}

\* C6: when the calendar adapter cannot represent the query's date, on the
\* solar path or on the lunar path, the response is an error and carries no
\* divination result.
C6_CalendarFailureIsError ==
  \A r \in Responded :
    (DateMatch(requests[r].query.date) # <<>> /\ CalendarFailure(requests[r].query)) =>
      /\ requests[r].response.isError
      /\ requests[r].response.body = EmptyBody

\* the position of a branch name in the twelve-name list, 0 when it is none
BranchOrdinalOfName(time) ==
  IF \E i \in 1..Len(shichens) : shichens[i] = time
  THEN CHOOSE i \in 1..Len(shichens) : shichens[i] = time
  ELSE 0

\* C7: a query with a valid date whose time is one of the twelve branch
\* names resolves to that branch's ordinal and returns a result, not an error.
C7_BranchNameAccepted ==
  \A r \in Responded :
    (/\ BranchOrdinalOfName(requests[r].query.time) # 0
     /\ requests[r].query.date \in
          {FormatDate(m, d) : m \in 1..MaxQueryMonth, d \in 1..MaxQueryDay}
     /\ requests[r].query.solar2lunar.kind = "object"
     /\ requests[r].query.lunar2solar \in {"object", "notCalled"}) =>
      /\ ~requests[r].response.isError
      /\ requests[r].response.body.calculation.shichenIndex =
           Num(BranchOrdinalOfName(requests[r].query.time))

\* C8: getAdvice(name) returns the state's guidance text for each of the six
\* catalog names and the generic fallback string for every other string; it
\* never returns a non-string value.
C8_AdviceTotal ==
  call.fn = "getAdvice" =>
    /\ call.ret.type = "string"
    /\ (call.args[1] \in GodNames => call.ret = StringValue("advice for " \o call.args[1]))
    /\ (call.args[1] \notin GodNames => call.ret = FallbackAdvice)

C10_SingleSum ==
  ValidEngineCall =>
    LET m == call.args[1].n
        d == call.args[2].n
        h == call.args[3].n
        o == TimeBranchOrdinal(h)
        final == call.ret.positions[3]
        FinalOf(mm, dd, hh) == calculateXiaoLiuRen(Num(mm), Num(dd), Num(hh)).finalResult
        Advanced == sixGods[((final.n + 1) % 6) + 1]
    IN /\ final = Num((m + d + o - 3) % 6)
       /\ call.ret.finalResult = sixGods[((((m + d + o) % 6) + 3) % 6) + 1]
       /\ FinalOf(m + 6, d, h) = call.ret.finalResult
       /\ FinalOf(m, d + 6, h) = call.ret.finalResult
       /\ FinalOf(m + 1, d, h) = Advanced
       /\ FinalOf(m, d + 1, h) = Advanced
       /\ \A h2 \in 0..23 :
            TimeBranchOrdinal(h2) = o + 1 => FinalOf(m, d, h2) = Advanced

C10_Witness ==
  /\ ValidEngineCall
  /\ call.args = <<Num(13), Num(13), Num(21)>>
  /\ call.ret.positions[3] = Num((13 + 13 + 12 - 3) % 6)
  /\ call.ret.finalResult.name = "KongWang"

====
